---- MODULE Spec2Model ----
(***************************************************************************)
(* HerSphere-BE: goal tracking, achievement detection, activity streaks,  *)
(* goal progress, trends, insights and their ranking, and the health      *)
(* score, modelled from services/analyticsService.js, routes/profile.js,  *)
(* controllers/logsController.js,                                          *)
(* services/streakService.js, controllers/analyticsController.js,          *)
(* controllers/streaksController.js (unnamed/part_004) and the schema of   *)
(* config/initDb (unnamed/part_002).                                       *)
(*                                                                         *)
(* Every `await pool.query(...)` of a handler is one atomic step of the    *)
(* store; between two awaits of one request any other request may run.     *)
(* Decimal columns (DECIMAL(10,2)) are kept in hundredths.  Calendar dates *)
(* are day numbers; all modelled rows lie inside the 30-day window.        *)
(***************************************************************************)
EXTENDS Integers, Sequences, FiniteSets, TLC

\* ------------------------------------------------------------------ bounds
MaxAmount == 3
MaxReopen == 1
MaxDate == 3
MaxSeries == 4
MaxHalfUnits == 12
MaxList == 3

Null == "null"
Users == {"u1", "u2"}
\* users whose logging routes are exercised; the other user stays cold-start
Writers == {"u1"}
Procs == {"p1", "p2"}
\* the calendar days a log entry may carry
Days == {1, 2}
\* targets a client sends, in hundredths (2.00)
TargetChoices == {200}
Statuses == {"active", "paused", "completed"}

\* the goals created before the requests under study (createGoal: status
\* defaults to 'active'); the target is chosen by the client
RaceCatalogue ==
  <<[user_id |-> "u1", metric |-> "water_intake"],
    [user_id |-> "u2", metric |-> "kriya_sessions"]>>
SeqCatalogue ==
  <<[user_id |-> "u1", metric |-> "water_intake"],
    [user_id |-> "u1", metric |-> "kriya_sessions"],
    [user_id |-> "u2", metric |-> "water_intake"]>>

VARIABLES
  user_goals,         \* id -> [user_id, metric, target (hundredths), status]
  goal_achievements,  \* sequence of [user_id, goal_id, achieved_value]
  water_intake,       \* user -> day -> amount_ml (0: no row)
  shambhavi_kriya,    \* user -> set of days with a row
  study_logs,         \* user -> day -> hours (0: no row)
  pc,                 \* request -> position in checkGoalAchievements
  caller,             \* request -> req.user.id
  pending,            \* request -> rest of activeGoals.rows (snapshot rows)
  currentValue,       \* request -> value of the goal under test
  achievedGoals,      \* request -> result list
  reopened,           \* number of updateGoal calls that left 'completed'
  pre,                \* history: <<the store when the running call began>>
  quiet,              \* history: users checked with no write since
  user_streaks,       \* the (user, activityType) row: <<>> or <<row>>
  spc,                \* request -> position in the streak handler
  sreq,               \* request -> [op, date, completed]
  streakResult,       \* request -> rows returned by its SELECT
  batch,              \* history: <<[base, calls]>> of the overlapping calls
  gs,                 \* calculateGoalStreak: inputs, loop variables, position
  pg,                 \* goal progress: inputs and the two functions' results
  tr,                 \* calculateTrend: the series and the returned result
  wi,                 \* analyzeWaterIntakePatterns: waterData and the result
  rk,                 \* the ranker: the list handed to a sort and what it returned
  gi,                 \* generateInsights: position, aggregates read, response
  hs,                 \* calculateOverallHealthScore: healthData and the score
  lg,                 \* request -> position and response of its logging route
  rt,                 \* the analytics router: the request and its response
  cp,                 \* calculateStudyConsistencyPatterns: inputs, loop, result
  pp,                 \* getPreviousPeriodComparison: the clock and the window
  written             \* history: the dates of the completed activity writes

goalVars == <<user_goals, goal_achievements, water_intake, shambhavi_kriya,
                 study_logs,
              pc, caller, pending, currentValue, achievedGoals, reopened>>
histVars == <<pre, quiet>>
streakVars == <<user_streaks, spc, sreq, streakResult>>
insightVars == <<tr, wi, rk, gi, hs>>
auxVars == <<rt, cp, pp, written>>
pureVars == <<gs, pg, insightVars, lg, auxVars>>
vars == <<goalVars, histVars, streakVars, batch, pureVars>>

\* ------------------------------------------------------------- arithmetic
\* Math.round(n / d) for n >= 0, d > 0: round half up
RoundDiv(n, d) == (2 * n + d) \div (2 * d)

RECURSIVE SumOver(_, _)
SumOver(f, S) ==
  IF S = {} THEN 0
  ELSE LET x == CHOOSE y \in S : TRUE IN f[x] + SumOver(f, S \ {x})

\* ------------------------------------------------- getCurrentMetricValue
\* SELECT AVG(amount_ml) ... ; avg_value ? Math.round(parseFloat(avg_value)) : 0
\* SELECT COUNT(*) ...       ; parseInt(total)
\* default: return 0
getCurrentMetricValue(userId, metric) ==
  CASE metric = "water_intake" ->
         LET rows == {d \in Days : water_intake[userId][d] > 0}
         IN IF rows = {} THEN 0
            ELSE RoundDiv(SumOver(water_intake[userId], rows), Cardinality(rows))
    [] metric = "study_hours" ->
         LET rows == {d \in Days : study_logs[userId][d] > 0}
         IN IF rows = {} THEN 0
            ELSE RoundDiv(SumOver(study_logs[userId], rows), Cardinality(rows))
    [] metric = "kriya_sessions" -> Cardinality(shambhavi_kriya[userId])
    [] OTHER -> 0

\* ---------------------------------------------------------------- Init
Goals == DOMAIN user_goals

LgIdle == [pc |-> "idle"]
NoRequest == [op |-> "none", date |-> 0, completed |-> FALSE]

\* user_streaks starts without a row for the (user, activityType) key
InitStreaks ==
  /\ user_streaks = <<>>
  /\ spc = [p \in Procs |-> "idle"]
  /\ sreq = [p \in Procs |-> NoRequest]
  /\ streakResult = [p \in Procs |-> <<>>]
  /\ batch = <<>>

InitGoals(catalogue) ==
  /\ \E targets \in [DOMAIN catalogue -> TargetChoices] :
       user_goals = [g \in DOMAIN catalogue |->
         [user_id |-> catalogue[g].user_id, metric |-> catalogue[g].metric,
          target |-> targets[g], status |-> "active"]]
  /\ goal_achievements = <<>>
  /\ water_intake = [u \in Users |-> [d \in Days |-> 0]]
  /\ shambhavi_kriya = [u \in Users |-> {}]
  /\ study_logs = [u \in Users |-> [d \in Days |-> 0]]
  /\ pc = [p \in Procs |-> "idle"]
  /\ caller = [p \in Procs |-> Null]
  /\ pending = [p \in Procs |-> <<>>]
  /\ currentValue = [p \in Procs |-> 0]
  /\ achievedGoals = [p \in Procs |-> <<>>]
  /\ reopened = 0
  /\ pre = <<>>
  /\ lg = [p \in Procs |-> LgIdle]
  /\ quiet = {}
  /\ InitStreaks

\* no pure-function run in progress
GsIdle == [pc |-> "idle"]
PgIdle == [pc |-> "idle"]
TrIdle == [pc |-> "idle"]
WiIdle == [pc |-> "idle"]
RkIdle == [pc |-> "idle"]
GiIdle == [pc |-> "idle"]
HsIdle == [pc |-> "idle"]
InsightIdle == tr = TrIdle /\ wi = WiIdle /\ rk = RkIdle /\ gi = GiIdle /\ hs = HsIdle
RtIdle == [pc |-> "idle"]
CpIdle == [pc |-> "idle"]
PpIdle == [pc |-> "idle"]
AuxIdle == rt = RtIdle /\ cp = CpIdle /\ pp = PpIdle /\ written = {}
InitPure == gs = GsIdle /\ pg = PgIdle /\ InsightIdle /\ AuxIdle

\* ------------------------------------------------ checkGoalAchievements
\* every ordering of a finite set: a SELECT without ORDER BY
OrderingsOf(S) ==
  {s \in [1..Cardinality(S) -> S] : \A i, j \in DOMAIN s : s[i] = s[j] => i = j}

\* SELECT * FROM user_goals WHERE user_id = $1 AND status = 'active'
ActiveGoalIdsAnyStatus(userId) ==
  {g \in Goals : user_goals[g].user_id = userId}
ActiveGoalIds(userId) ==
  {g \in Goals : user_goals[g].user_id = userId /\ user_goals[g].status = "active"}

\* if (currentValue >= target), target = parseFloat(goal.target)
MeetsTargetStrict(value, target) == value * 100 > target
MeetsTarget(value, target) == value * 100 >= target

\* the position after the loop body of one goal
AfterGoal(p) ==
  /\ pending' = [pending EXCEPT ![p] = Tail(@)]
  /\ currentValue' = [currentValue EXCEPT ![p] = 0]
  /\ pc' = [pc EXCEPT ![p] = IF Len(pending[p]) = 1 THEN "returned" ELSE "value"]

\* const activeGoals = await pool.query(...)
ScanActiveGoals(p, userId) ==
  /\ pc[p] = "idle"
  /\ \E order \in OrderingsOf(ActiveGoalIds(userId)) :
       /\ pending' = [pending EXCEPT ![p] =
            [i \in DOMAIN order |->
               [id |-> order[i], metric |-> user_goals[order[i]].metric,
                target |-> user_goals[order[i]].target]]]
       /\ pc' = [pc EXCEPT ![p] = IF order = <<>> THEN "returned" ELSE "value"]
  /\ caller' = [caller EXCEPT ![p] = userId]
  /\ achievedGoals' = [achievedGoals EXCEPT ![p] = <<>>]
  /\ UNCHANGED <<user_goals, goal_achievements, water_intake, shambhavi_kriya,
                 study_logs,
                 currentValue, reopened>>

\* const currentValue = await this.getCurrentMetricValue(...); if (currentValue >= target)
ReadCurrentValue(p) ==
  /\ pc[p] = "value"
  /\ LET goal == Head(pending[p])
         value == getCurrentMetricValue(caller[p], goal.metric)
     IN IF MeetsTarget(value, goal.target)
        THEN /\ currentValue' = [currentValue EXCEPT ![p] = value]
             /\ pc' = [pc EXCEPT ![p] = "update"]
             /\ UNCHANGED pending
        ELSE AfterGoal(p)
  /\ UNCHANGED <<user_goals, goal_achievements, water_intake, shambhavi_kriya,
                 study_logs,
                 caller, achievedGoals, reopened>>

\* UPDATE user_goals SET status = 'completed' WHERE id = $2
CompletedStatusStale(p) == "active"
CompletedStatus(p) == "completed"

MarkCompleted(p) ==
  /\ pc[p] = "update"
  /\ user_goals' = [user_goals EXCEPT ![Head(pending[p]).id].status = CompletedStatus(p)]
  /\ pc' = [pc EXCEPT ![p] = "record"]
  /\ UNCHANGED <<goal_achievements, water_intake, shambhavi_kriya,
                 study_logs, caller, pending,
                 currentValue, achievedGoals, reopened>>

\* INSERT INTO goal_achievements (user_id, goal_id, achieved_value, achieved_at)
recordGoalAchievement(p) ==
  /\ pc[p] = "record"
  /\ goal_achievements' = Append(goal_achievements,
        [user_id |-> caller[p], goal_id |-> Head(pending[p]).id,
         achieved_value |-> currentValue[p]])
  /\ achievedGoals' = [achievedGoals EXCEPT ![p] =
        Append(@, [id |-> Head(pending[p]).id, achievedValue |-> currentValue[p]])]
  /\ AfterGoal(p)
  /\ UNCHANGED <<user_goals, water_intake, shambhavi_kriya,
                 study_logs, caller, reopened>>

\* controller: res.json({achievedGoals, notifications, count})
Respond(p) ==
  /\ pc[p] = "returned"
  /\ pc' = [pc EXCEPT ![p] = "idle"]
  /\ caller' = [caller EXCEPT ![p] = Null]
  /\ achievedGoals' = [achievedGoals EXCEPT ![p] = <<>>]
  /\ UNCHANGED <<user_goals, goal_achievements, water_intake, shambhavi_kriya,
                 study_logs,
                 pending, currentValue, reopened>>

\* --------------------------------------------------------------- updateGoal
\* UPDATE user_goals SET target = COALESCE($1, target), status = COALESCE($3, status)
\*   WHERE id = $4 AND user_id = $5   (no row: 404, nothing changes)
\* a request-body field: <<>> when absent (undefined -> SQL NULL), <<x>> when sent
Optional(S) == {<<>>} \cup {<<x>> : x \in S}
COALESCE(x, old) == IF x = <<>> THEN old ELSE x[1]

updateGoal(userId, goalId, target, status) ==
  LET old == user_goals[goalId]
      new == [old EXCEPT !.target = COALESCE(target, old.target),
                         !.status = COALESCE(status, old.status)]
      leaves == old.status = "completed" /\ new.status # "completed"
  IN /\ goalId \in Goals
     /\ old.user_id = userId
     /\ leaves => reopened < MaxReopen
     /\ user_goals' = [user_goals EXCEPT ![goalId] = new]
     /\ reopened' = IF leaves THEN reopened + 1 ELSE reopened
     /\ UNCHANGED <<goal_achievements, water_intake, shambhavi_kriya,
                 study_logs, pc, caller,
                    pending, currentValue, achievedGoals>>

\* ------------------------------------------------------- logging routes
\* INSERT INTO water_intake ... ON CONFLICT (user_id, date) DO UPDATE SET amount_ml = $3
addWaterIntake(userId, date, amount_ml) ==
  /\ amount_ml > 0
  /\ water_intake' = [water_intake EXCEPT ![userId][date] = amount_ml]
  /\ UNCHANGED <<user_goals, goal_achievements, shambhavi_kriya, study_logs, pc, caller,
                 pending,
                 currentValue, achievedGoals, reopened>>

\* INSERT INTO study_logs ... ON CONFLICT (user_id, date) DO UPDATE SET hours = $3
addStudyLog(userId, date, hours) ==
  /\ hours >= 1 /\ hours <= 12
  /\ study_logs' = [study_logs EXCEPT ![userId][date] = hours]
  /\ UNCHANGED <<user_goals, goal_achievements, water_intake, shambhavi_kriya, pc, caller,
                 pending, currentValue, achievedGoals, reopened>>

\* INSERT INTO shambhavi_kriya ... ON CONFLICT (user_id, date) DO UPDATE SET notes = $3
addKriyaEntry(userId, date) ==
  /\ shambhavi_kriya' = [shambhavi_kriya EXCEPT ![userId] = @ \cup {date}]
  /\ UNCHANGED <<user_goals, goal_achievements, water_intake, study_logs, pc, caller,
                 pending,
                 currentValue, achievedGoals, reopened>>

\* ------------------------------------------------ concurrent requests
CheckStep(p) ==
  \/ \E u \in Users : ScanActiveGoals(p, u)
  \/ ReadCurrentValue(p)
  \/ MarkCompleted(p)
  \/ recordGoalAchievement(p)
  \/ Respond(p)

UpdateGoalStep ==
  \E u \in Users, g \in DOMAIN SeqCatalogue, t \in Optional(TargetChoices), s \in Optional(Statuses) :
    updateGoal(u, g, t, s)

\* the concurrent specification logs water on one day only
RaceDays == {1}

RaceLogStep ==
  \E u \in Writers, d \in RaceDays, a \in 1..MaxAmount : addWaterIntake(u, d, a)

Next ==
  \/ (\E p \in Procs : CheckStep(p)) /\ UNCHANGED <<histVars, streakVars, batch, pureVars>>
  \/ UpdateGoalStep /\ UNCHANGED <<histVars, streakVars, batch, pureVars>>
  \/ RaceLogStep /\ UNCHANGED <<histVars, streakVars, batch, pureVars>>

Init == InitGoals(RaceCatalogue) /\ InitPure

Spec == Init /\ [][Next]_vars

\* ------------------------------------------------ one request at a time
\* The same steps, scheduled so that a checkGoalAchievements call runs from
\* its scan to its response with no other request in between.  pre records
\* the store at the scan; quiet holds the users whose last check has been
\* followed by no write at all.
AllIdle == \A p \in Procs : pc[p] = "idle"

LogStep ==
  \/ \E u \in Writers, d \in Days, a \in 1..MaxAmount : addWaterIntake(u, d, a)
  \/ \E u \in Writers, d \in Days : addKriyaEntry(u, d)

SeqScan(p, u) ==
  /\ AllIdle
  /\ ScanActiveGoals(p, u)
  /\ pre' = <<[status |-> [g \in Goals |-> user_goals[g].status],
               rows |-> goal_achievements,
               quiet |-> u \in quiet]>>
  /\ UNCHANGED <<quiet, streakVars, batch, pureVars>>

SeqBody(p) ==
  /\ ReadCurrentValue(p) \/ MarkCompleted(p) \/ recordGoalAchievement(p)
  /\ UNCHANGED <<histVars, streakVars, batch, pureVars>>

SeqRespond(p) ==
  /\ Respond(p)
  /\ quiet' = quiet \cup {caller[p]}
  /\ pre' = <<>>
  /\ UNCHANGED <<streakVars, batch, pureVars>>

SeqWrite ==
  /\ AllIdle
  /\ UpdateGoalStep \/ LogStep
  /\ quiet' = {}
  /\ UNCHANGED <<pre, streakVars, batch, pureVars>>

SeqProcs == {"p1"}

NextSeq ==
  \/ \E p \in SeqProcs, u \in Users : SeqScan(p, u)
  \/ \E p \in SeqProcs : SeqBody(p)
  \/ \E p \in SeqProcs : SeqRespond(p)
  \/ SeqWrite

InitSeq == InitGoals(SeqCatalogue) /\ InitPure

SpecSeq == InitSeq /\ [][NextSeq]_vars

\* --------------------------------------------- goals on the study metrics
\* goals on the two study keys a client may create, one request at a time
MetricCatalogue ==
  <<[user_id |-> "u1", metric |-> "study_hours"],
    [user_id |-> "u1", metric |-> "daily_study_hours"],
    [user_id |-> "u2", metric |-> "daily_study_hours"]>>
StudyHours == {1, 2, 3}

StudyLogStep ==
  \E u \in Users, d \in Days, h \in StudyHours : addStudyLog(u, d, h)

MetricWrite ==
  /\ AllIdle
  /\ StudyLogStep
  /\ quiet' = {}
  /\ UNCHANGED <<pre, streakVars, batch, pureVars>>

NextMetric ==
  \/ \E p \in SeqProcs, u \in Users : SeqScan(p, u)
  \/ \E p \in SeqProcs : SeqBody(p)
  \/ \E p \in SeqProcs : SeqRespond(p)
  \/ MetricWrite

InitMetric == InitGoals(MetricCatalogue) /\ InitPure

SpecMetric == InitMetric /\ [][NextMetric]_vars

\* ------------------------------------------------------------ streaks
\* One (user, activityType) row of user_streaks.  Dates are day numbers, so
\* Math.floor((activityDate - lastActivityDate) / 86400000) is their difference.
StreakDays == 1..MaxDate

Max(a, b) == IF a > b THEN a ELSE b

LongestAfterKept(currentStreak, longestStreak) == longestStreak
\* if (currentStreak > longestStreak) longestStreak = currentStreak
LongestAfter(currentStreak, longestStreak) == Max(currentStreak, longestStreak)

\* the streak computed from the rows the SELECT returned, for a completed
\* activity on `date` (updateUserStreak, completed branch; updateStreak)
StreakAfterActivity(rows, date) ==
  LET currentStreak == IF rows = <<>> THEN 0 ELSE rows[1].current_streak
      longestStreak == IF rows = <<>> THEN 0 ELSE rows[1].longest_streak
      daysDiff == IF rows = <<>> THEN 0 ELSE date - rows[1].last_activity_date
      newStreak == IF rows = <<>> THEN 1
                   ELSE IF daysDiff = 1 THEN currentStreak + 1
                   ELSE IF daysDiff = 0 THEN currentStreak
                   ELSE 1
  IN [current_streak |-> newStreak,
      longest_streak |-> LongestAfter(newStreak, longestStreak),
      last_activity_date |-> date]

\* const streakResult = await pool.query('SELECT * FROM user_streaks ...')
\* a call with completed = false that finds no gap writes nothing and returns
StreakSelect(p, op, date, completed) ==
  /\ spc[p] = "idle"
  /\ sreq' = [sreq EXCEPT ![p] = [op |-> op, date |-> date, completed |-> completed]]
  /\ IF completed \/ (user_streaks # <<>> /\ date - user_streaks[1].last_activity_date > 1)
     THEN /\ streakResult' = [streakResult EXCEPT ![p] = user_streaks]
          /\ spc' = [spc EXCEPT ![p] = "write"]
     ELSE /\ streakResult' = [streakResult EXCEPT ![p] = <<>>]
          /\ spc' = [spc EXCEPT ![p] = "ok"]
  /\ UNCHANGED user_streaks

\* the UPDATE or INSERT that follows; an INSERT that meets a row another
\* request inserted violates UNIQUE(user_id, activity_type) and throws
StreakWrite(p) ==
  /\ spc[p] = "write"
  /\ LET rows == streakResult[p]
         r == sreq[p]
     IN IF r.completed
        THEN IF rows # <<>>
             THEN /\ user_streaks' = <<StreakAfterActivity(rows, r.date)>>
                  /\ spc' = [spc EXCEPT ![p] = "ok"]
             ELSE IF user_streaks = <<>>
             THEN /\ user_streaks' = <<StreakAfterActivity(rows, r.date)>>
                  /\ spc' = [spc EXCEPT ![p] = "ok"]
             ELSE /\ UNCHANGED user_streaks
                  /\ spc' = [spc EXCEPT ![p] = "failed"]
        ELSE \* UPDATE user_streaks SET current_streak = 0
             /\ user_streaks' = <<[user_streaks[1] EXCEPT !.current_streak = 0]>>
             /\ spc' = [spc EXCEPT ![p] = "ok"]
  /\ streakResult' = [streakResult EXCEPT ![p] = <<>>]
  /\ UNCHANGED sreq

\* return {success, ...} / res.json(...)
StreakReturn(p) ==
  /\ spc[p] \in {"ok", "failed"}
  /\ spc' = [spc EXCEPT ![p] = "idle"]
  /\ sreq' = [sreq EXCEPT ![p] = NoRequest]
  /\ UNCHANGED <<user_streaks, streakResult>>

\* streakService.updateUserStreak(userId, activityType, date, completed)
updateUserStreak(p, date, completed) == StreakSelect(p, "updateUserStreak", date, completed)

\* streaksController.updateStreak: always the completed computation
updateStreak(p, date) == StreakSelect(p, "updateStreak", date, TRUE)

\* UPDATE user_streaks SET current_streak = 0 WHERE user_id = $1 AND activity_type = $2
resetUserStreak ==
  /\ user_streaks' = IF user_streaks = <<>> THEN <<>>
                     ELSE <<[user_streaks[1] EXCEPT !.current_streak = 0]>>
  /\ UNCHANGED <<spc, sreq, streakResult>>

NextStreak ==
  \/ \E p \in Procs, d \in StreakDays, c \in BOOLEAN :
       updateUserStreak(p, d, c) /\ UNCHANGED <<goalVars, histVars, batch, pureVars>>
  \/ \E p \in Procs, d \in StreakDays :
       updateStreak(p, d) /\ UNCHANGED <<goalVars, histVars, batch, pureVars>>
  \/ \E p \in Procs : StreakWrite(p) /\ UNCHANGED <<goalVars, histVars, batch, pureVars>>
  \/ \E p \in Procs : StreakReturn(p) /\ UNCHANGED <<goalVars, histVars, batch, pureVars>>
  \/ resetUserStreak /\ UNCHANGED <<goalVars, histVars, batch, pureVars>>

SpecStreak == Init /\ [][NextStreak]_vars

\* ------------------------------------- two overlapping updateUserStreak calls
\* batch records the row when a call starts with no other call running, and
\* the arguments of that call and of the one call that overlaps it.
AllStreakIdle == \A p \in Procs : spc[p] = "idle"

PairSelect(p, date, completed) ==
  /\ AllStreakIdle \/ (batch # <<>> /\ Len(batch[1].calls) < 2)
  /\ updateUserStreak(p, date, completed)
  /\ batch' = IF AllStreakIdle
              THEN <<[base |-> user_streaks,
                      calls |-> <<[date |-> date, completed |-> completed]>>]>>
              ELSE <<[batch[1] EXCEPT
                       !.calls = Append(@, [date |-> date, completed |-> completed])]>>

NextPair ==
  \/ \E p \in Procs, d \in StreakDays, c \in BOOLEAN :
       PairSelect(p, d, c) /\ UNCHANGED <<goalVars, histVars, pureVars>>
  \/ \E p \in Procs : StreakWrite(p) /\ UNCHANGED <<goalVars, histVars, batch, pureVars>>
  \/ \E p \in Procs : StreakReturn(p) /\ UNCHANGED <<goalVars, histVars, batch, pureVars>>

SpecStreakPair == Init /\ [][NextPair]_vars

\* ------------------------------------- the water logging route, end to end
\* POST /water-intake: the upsert, then await updateUserStreak(userId,
\* 'water', date, true), then res.status(201).  updateUserStreak catches what
\* its queries throw and returns {success: false}; the route does not read
\* the value it returns.
LogUpsert(p, date, amount_ml) ==
  /\ lg[p].pc = "idle"
  /\ spc[p] = "idle"
  /\ addWaterIntake("u1", date, amount_ml)
  /\ lg' = [lg EXCEPT ![p] = [pc |-> "streak", date |-> date]]
  /\ UNCHANGED streakVars

LogStreakSelect(p) ==
  /\ lg[p].pc = "streak"
  /\ updateUserStreak(p, lg[p].date, TRUE)
  /\ lg' = [lg EXCEPT ![p].pc = "await"]
  /\ UNCHANGED goalVars

LogStreakWrite(p) ==
  /\ lg[p].pc = "await"
  /\ StreakWrite(p)
  /\ UNCHANGED <<goalVars, lg>>

\* updateUserStreak returns; res.status(201).json({message: '... successfully'})
LogRespond(p) ==
  /\ lg[p].pc = "await"
  /\ StreakReturn(p)
  /\ lg' = [lg EXCEPT ![p] = [pc |-> "responded", date |-> lg[p].date, status |-> 201,
                              streakResult |-> [success |-> spc[p] = "ok"]]]
  /\ UNCHANGED goalVars

LogDone(p) ==
  /\ lg[p].pc = "responded"
  /\ lg' = [lg EXCEPT ![p] = LgIdle]
  /\ UNCHANGED <<goalVars, streakVars>>

NextLog ==
  \/ \E p \in Procs, d \in Days, a \in 1..MaxAmount :
       LogUpsert(p, d, a) /\ UNCHANGED <<histVars, batch, gs, pg, insightVars, auxVars>>
  \/ \E p \in Procs : LogStreakSelect(p) /\ UNCHANGED <<histVars, batch, gs, pg, insightVars, auxVars>>
  \/ \E p \in Procs : LogStreakWrite(p) /\ UNCHANGED <<histVars, batch, gs, pg, insightVars, auxVars>>
  \/ \E p \in Procs : LogRespond(p) /\ UNCHANGED <<histVars, batch, gs, pg, insightVars, auxVars>>
  \/ \E p \in Procs : LogDone(p) /\ UNCHANGED <<histVars, batch, gs, pg, insightVars, auxVars>>

SpecLog == Init /\ [][NextLog]_vars

\* ---------------------------------------------------- calculateGoalStreak
\* daily values getDailyMetricValues returns (ascending dates, here the index)
DailyAmounts == {1800, 2100, 2200}
\* goal.target, in hundredths
StreakTargets == {200000, 215000}

SeriesUpTo(n) == UNION {[1..k -> DailyAmounts] : k \in 0..n}

InitGoalStreak ==
  \E hasGoal \in BOOLEAN, target \in StreakTargets, values \in SeriesUpTo(MaxSeries) :
    gs = [pc |-> "start", hasGoal |-> hasGoal, target |-> target, dailyValues |-> values,
          i |-> 0, tempStreak |-> 0, currentStreak |-> 0, longestStreak |-> 0,
          lastAchievedDate |-> 0]

\* if (goal.rows.length === 0) return {0, 0, null}; otherwise enter the loop
\* with i = dailyValues.length - 1 (indices here are 1-based: i = Len)
GoalStreakStart ==
  /\ gs.pc = "start"
  /\ gs' = IF ~gs.hasGoal THEN [gs EXCEPT !.pc = "done"]
           ELSE [gs EXCEPT !.pc = "loop", !.i = Len(gs.dailyValues)]

\* if (i === dailyValues.length - 1) currentStreak = tempStreak
CurrentAtLastDay(i, len, tempStreak, currentStreak) ==
  IF i = len THEN tempStreak ELSE currentStreak

\* one iteration of for (let i = dailyValues.length - 1; i >= 0; i--)
GoalStreakIterate ==
  /\ gs.pc = "loop"
  /\ gs.i >= 1
  /\ LET len == Len(gs.dailyValues)
         meets == gs.dailyValues[gs.i] * 100 >= gs.target
     IN gs' = IF meets
              THEN [gs EXCEPT
                     !.tempStreak = @ + 1,
                     !.currentStreak =
                        CurrentAtLastDay(gs.i, len, gs.tempStreak + 1, gs.currentStreak),
                     !.lastAchievedDate = IF @ = 0 THEN gs.i ELSE @,
                     !.i = @ - 1]
              ELSE [gs EXCEPT
                     !.longestStreak = IF gs.tempStreak > @ THEN gs.tempStreak ELSE @,
                     !.currentStreak = IF gs.i = len THEN 0 ELSE @,
                     !.tempStreak = 0,
                     !.i = @ - 1]

\* after the loop: if (tempStreak > longestStreak) longestStreak = tempStreak; return
GoalStreakFinish ==
  /\ gs.pc = "loop"
  /\ gs.i = 0
  /\ gs' = [gs EXCEPT
             !.longestStreak = IF gs.tempStreak > @ THEN gs.tempStreak ELSE @,
             !.pc = "done"]

NextGoalStreak ==
  \/ GoalStreakStart /\ UNCHANGED <<goalVars, histVars, streakVars, batch, lg, auxVars, pg, insightVars>>
  \/ GoalStreakIterate /\ UNCHANGED <<goalVars, histVars, streakVars, batch, lg, auxVars, pg, insightVars>>
  \/ GoalStreakFinish /\ UNCHANGED <<goalVars, histVars, streakVars, batch, lg, auxVars, pg, insightVars>>

InitSpecGoalStreak ==
  InitGoals(RaceCatalogue) /\ AuxIdle /\ InitGoalStreak /\ pg = PgIdle /\ InsightIdle

SpecGoalStreak == InitSpecGoalStreak /\ [][NextGoalStreak]_vars

\* ------------------------------------------------------------ goal progress
\* currentValue and target in hundredths
CurrentChoices == {50 * k : k \in 0..MaxHalfUnits}
ProgressTargets == {-100, 0, 150, 200, 201, 250, 400, 500}

Min(a, b) == IF a < b THEN a ELSE b

\* calculateDetailedGoalProgress: progress, progressStatus
DetailedGoalProgressUncapped(current, target) ==
  LET progress == IF target > 0 THEN RoundDiv(current * 100, target) ELSE 0
  IN [progress |-> progress,
      status |-> IF progress >= 100 THEN "achieved"
                 ELSE IF progress >= 80 THEN "on_track"
                 ELSE IF progress >= 50 THEN "behind"
                 ELSE "needs_attention"]
DetailedGoalProgress(current, target) ==
  LET progress == IF target > 0 THEN RoundDiv(current * 100, target) ELSE 0
  IN [progress |-> Min(progress, 100),
      status |-> IF progress >= 100 THEN "achieved"
                 ELSE IF progress >= 80 THEN "on_track"
                 ELSE IF progress >= 50 THEN "behind"
                 ELSE "needs_attention"]

\* calculateGoalProgress (a goal row was found): progress, status
GoalProgressCappedStatus(current, target) ==
  LET progress == Min(IF target > 0 THEN RoundDiv(current * 100, target) ELSE 0, 100)
  IN [progress |-> progress,
      status |-> IF progress > 100 THEN "achieved"
                 ELSE IF progress >= 80 THEN "on_track"
                 ELSE IF progress >= 50 THEN "behind"
                 ELSE "needs_attention"]
GoalProgress(current, target) ==
  LET progress == IF target > 0 THEN RoundDiv(current * 100, target) ELSE 0
  IN [progress |-> Min(progress, 100),
      status |-> IF progress >= 100 THEN "achieved"
                 ELSE IF progress >= 80 THEN "on_track"
                 ELSE IF progress >= 50 THEN "behind"
                 ELSE "needs_attention"]

InitProgress ==
  \E c \in CurrentChoices, t \in ProgressTargets, hasGoal \in BOOLEAN :
    pg = [pc |-> "ready", currentValue |-> c, target |-> t, hasGoal |-> hasGoal,
          detailed |-> <<>>, simple |-> <<>>]

calculateDetailedGoalProgress ==
  /\ pg.pc = "ready"
  /\ pg.detailed = <<>>
  /\ pg' = [pg EXCEPT !.detailed = <<DetailedGoalProgress(pg.currentValue, pg.target)>>]

\* if (result.rows.length === 0) return null
calculateGoalProgress ==
  /\ pg.pc = "ready"
  /\ pg.simple = <<>>
  /\ pg' = [pg EXCEPT !.simple =
             IF pg.hasGoal THEN <<GoalProgress(pg.currentValue, pg.target)>>
             ELSE <<[progress |-> 0, status |-> "null"]>>]

NextProgress ==
  \/ calculateDetailedGoalProgress
       /\ UNCHANGED <<goalVars, histVars, streakVars, batch, lg, auxVars, gs, insightVars>>
  \/ calculateGoalProgress /\ UNCHANGED <<goalVars, histVars, streakVars, batch, lg, auxVars, gs, insightVars>>

InitSpecProgress ==
  InitGoals(RaceCatalogue) /\ AuxIdle /\ gs = GsIdle /\ InitProgress /\ InsightIdle

SpecProgress == InitSpecProgress /\ [][NextProgress]_vars

\* ------------------------------------------------------------ calculateTrend
\* the numbers a series may hold
TrendValues == {-2, 0, 2, 10, 11}
TrendSeries == UNION {[1..k -> TrendValues] : k \in 0..MaxSeries}

\* values.reduce((sum, val) => sum + val, 0)
RECURSIVE reduceSum(_)
reduceSum(values) ==
  IF values = <<>> THEN 0 ELSE Head(values) + reduceSum(Tail(values))

\* trend = 'stable'; if (percentageChange > 10) ... else if (< -10) ...
TrendClass(percentageChange) ==
  IF percentageChange > 10 THEN "increasing"
  ELSE IF percentageChange < -10 THEN "decreasing"
  ELSE "stable"

\* calculateTrend(values).  With s1/n1 and s2/n2 the two half averages,
\* ((s2/n2 - s1/n1) / (s1/n1)) * 100 = (s2*n1 - s1*n2) * 100 / (s1*n2);
\* firstHalfAvg > 0 exactly when s1 > 0 (an empty first half gives NaN, and
\* NaN > 0 is false).
TrendShortGuard(values) ==
  IF Len(values) < 1 THEN [trend |-> "insufficient_data", percentage |-> 0]
  ELSE LET midPoint == Len(values) \div 2
           s1 == reduceSum(SubSeq(values, 1, midPoint))
           s2 == reduceSum(SubSeq(values, midPoint + 1, Len(values)))
           n1 == midPoint
           n2 == Len(values) - midPoint
           percentageChange ==
             IF s1 > 0 THEN RoundDiv((s2 * n1 - s1 * n2) * 100, s1 * n2) ELSE 0
       IN [trend |-> TrendClass(percentageChange), percentage |-> percentageChange]
Trend(values) ==
  IF Len(values) < 2 THEN [trend |-> "insufficient_data", percentage |-> 0]
  ELSE LET midPoint == Len(values) \div 2
           s1 == reduceSum(SubSeq(values, 1, midPoint))
           s2 == reduceSum(SubSeq(values, midPoint + 1, Len(values)))
           n1 == midPoint
           n2 == Len(values) - midPoint
           percentageChange ==
             IF s1 > 0 THEN RoundDiv((s2 * n1 - s1 * n2) * 100, s1 * n2) ELSE 0
       IN [trend |-> TrendClass(percentageChange), percentage |-> percentageChange]

InitTrend ==
  \E values \in TrendSeries : tr = [pc |-> "ready", values |-> values, result |-> <<>>]

calculateTrend ==
  /\ tr.pc = "ready"
  /\ tr' = [tr EXCEPT !.pc = "done", !.result = <<Trend(tr.values)>>]

NextTrend ==
  calculateTrend /\ UNCHANGED <<goalVars, histVars, streakVars, batch, lg, auxVars, gs, pg, wi, rk, gi, hs>>

InitSpecTrend ==
  InitGoals(RaceCatalogue) /\ AuxIdle /\ gs = GsIdle /\ pg = PgIdle /\ InitTrend /\ wi = WiIdle
    /\ rk = RkIdle /\ gi = GiIdle /\ hs = HsIdle

SpecTrend == InitSpecTrend /\ [][NextTrend]_vars

\* ------------------------------------------------ analyzeWaterIntakePatterns
recommendedDaily == 2000
\* recommendedDaily * 0.7 (the double 2000 * 0.7 is exactly 1400)
lowIntakeLimit == 1400

Trends == {"increasing", "decreasing", "stable", "insufficient_data"}
WaterAverages == {0, 1200, 1399, 1400, 1999, 2000, 2100}
TrendPercentages == {-25, -16, -15, 0, 15, 16, 25}
DaysTrackedChoices == {0, 19, 20, 25}
\* waterData.goalProgress: null or {status, progress}
GoalProgressChoices ==
  {<<>>, <<[status |-> "achieved", progress |-> 100]>>,
   <<[status |-> "on_track", progress |-> 90]>>}
WaterDataChoices ==
  [average : WaterAverages, trend : Trends, trendPercentage : TrendPercentages,
   daysTracked : DaysTrackedChoices, goalProgress : GoalProgressChoices]

Abs(x) == IF x < 0 THEN -x ELSE x

\* the objects analyzeWaterIntakePatterns pushes; message names the template
\* and percent the number interpolated into it
Insight(message, percent, severity, actionable) ==
  [type |-> "health", category |-> "water_intake", message |-> message,
   percent |-> percent, severity |-> severity, actionable |-> actionable]
Recommendation(message, priority, estimatedImpact) ==
  [type |-> "health", category |-> "water_intake", message |-> message,
   actionable |-> TRUE, priority |-> priority, estimatedImpact |-> estimatedImpact]
Milestone(type, progress) ==
  [type |-> type, category |-> "water_intake", progress |-> progress]

\* analyzeWaterIntakePatterns(waterData): the four analyses in source order
WaterIntakePatternsInclusive(waterData) ==
  LET improving == waterData.trend = "increasing" /\ waterData.trendPercentage > 15
      declining == waterData.trend = "decreasing" /\ waterData.trendPercentage < -15
      low == waterData.average <= lowIntakeLimit
      met == ~low /\ waterData.average >= recommendedDaily
      sparse == waterData.daysTracked < 20
      achieved == waterData.goalProgress # <<>>
                    /\ waterData.goalProgress[1].status = "achieved"
  IN [insights |->
        (IF improving
           THEN <<Insight("improved by", waterData.trendPercentage, "positive", FALSE)>>
         ELSE IF declining
           THEN <<Insight("decreased by", Abs(waterData.trendPercentage), "warning", TRUE)>>
         ELSE <<>>)
        \o (IF low THEN <<Insight("significantly below", waterData.average, "critical", TRUE)>>
            ELSE <<>>),
      recommendations |->
        (IF ~improving /\ declining
           THEN <<Recommendation("hourly reminders", "high", "high")>> ELSE <<>>)
        \o (IF low THEN <<Recommendation("increase gradually", "high", "high")>> ELSE <<>>)
        \o (IF sparse THEN <<Recommendation("track consistently", "medium", "medium")>>
            ELSE <<>>),
      milestones |->
        (IF met THEN <<Milestone("achievement", 0)>> ELSE <<>>)
        \o (IF achieved
              THEN <<Milestone("goal_achievement", waterData.goalProgress[1].progress)>>
            ELSE <<>>)]
WaterIntakePatterns(waterData) ==
  LET improving == waterData.trend = "increasing" /\ waterData.trendPercentage > 15
      declining == waterData.trend = "decreasing" /\ waterData.trendPercentage < -15
      low == waterData.average < lowIntakeLimit
      met == ~low /\ waterData.average >= recommendedDaily
      sparse == waterData.daysTracked < 20
      achieved == waterData.goalProgress # <<>>
                    /\ waterData.goalProgress[1].status = "achieved"
  IN [insights |->
        (IF improving
           THEN <<Insight("improved by", waterData.trendPercentage, "positive", FALSE)>>
         ELSE IF declining
           THEN <<Insight("decreased by", Abs(waterData.trendPercentage), "warning", TRUE)>>
         ELSE <<>>)
        \o (IF low THEN <<Insight("significantly below", waterData.average, "critical", TRUE)>>
            ELSE <<>>),
      recommendations |->
        (IF ~improving /\ declining
           THEN <<Recommendation("hourly reminders", "high", "high")>> ELSE <<>>)
        \o (IF low THEN <<Recommendation("increase gradually", "high", "high")>> ELSE <<>>)
        \o (IF sparse THEN <<Recommendation("track consistently", "medium", "medium")>>
            ELSE <<>>),
      milestones |->
        (IF met THEN <<Milestone("achievement", 0)>> ELSE <<>>)
        \o (IF achieved
              THEN <<Milestone("goal_achievement", waterData.goalProgress[1].progress)>>
            ELSE <<>>)]

InitWaterPatterns ==
  \E waterData \in WaterDataChoices :
    wi = [pc |-> "ready", waterData |-> waterData, result |-> <<>>]

analyzeWaterIntakePatterns ==
  /\ wi.pc = "ready"
  /\ wi' = [wi EXCEPT !.pc = "done", !.result = <<WaterIntakePatterns(wi.waterData)>>]

NextWaterPatterns ==
  analyzeWaterIntakePatterns
    /\ UNCHANGED <<goalVars, histVars, streakVars, batch, lg, auxVars, gs, pg, tr, rk, gi, hs>>

InitSpecWaterPatterns ==
  InitGoals(RaceCatalogue) /\ AuxIdle /\ gs = GsIdle /\ pg = PgIdle /\ tr = TrIdle /\ rk = RkIdle
    /\ gi = GiIdle /\ hs = HsIdle /\ InitWaterPatterns

SpecWaterPatterns == InitSpecWaterPatterns /\ [][NextWaterPatterns]_vars

\* ---------------------------------------------------------------- ranker
\* insights and recommendations a list may hold; id is the element's identity
\* (its position in the list handed in), timestamp a number of hours
Severities == {"critical", "warning", "info", "positive"}
Timestamps == {1, 2}
Levels == {"high", "medium", "low"}
ImpactChoices == {"high", "low"}

InsightKeys == [severity : Severities, actionable : BOOLEAN, timestamp : Timestamps]
RecommendationKeys ==
  [priority : Levels, estimatedImpact : ImpactChoices, actionable : BOOLEAN]

Tagged(keys) == [i \in DOMAIN keys |-> [id |-> i, key |-> keys[i]]]
ListsOver(S) == UNION {[1..k -> S] : k \in 0..MaxList}

severityOrder(severity) ==
  CASE severity = "critical" -> 0
    [] severity = "warning" -> 1
    [] severity = "info" -> 2
    [] severity = "positive" -> 3

\* priorityOrder and impactOrder hold the same table
priorityOrder(level) ==
  CASE level = "high" -> 0
    [] level = "medium" -> 1
    [] level = "low" -> 2

\* the comparator of sortInsightsBySeverity
compareInsightsOldestFirst(a, b) ==
  LET severityDiff == severityOrder(a.key.severity) - severityOrder(b.key.severity)
  IN IF severityDiff # 0 THEN severityDiff
     ELSE IF a.key.actionable /\ ~b.key.actionable THEN -1
     ELSE IF ~a.key.actionable /\ b.key.actionable THEN 1
     ELSE a.key.timestamp - b.key.timestamp
compareInsights(a, b) ==
  LET severityDiff == severityOrder(a.key.severity) - severityOrder(b.key.severity)
  IN IF severityDiff # 0 THEN severityDiff
     ELSE IF a.key.actionable /\ ~b.key.actionable THEN -1
     ELSE IF ~a.key.actionable /\ b.key.actionable THEN 1
     ELSE b.key.timestamp - a.key.timestamp

\* the comparator of prioritizeRecommendations
compareRecommendationsTieAfter(a, b) ==
  LET priorityDiff == priorityOrder(a.key.priority) - priorityOrder(b.key.priority)
      impactDiff ==
        priorityOrder(a.key.estimatedImpact) - priorityOrder(b.key.estimatedImpact)
  IN IF priorityDiff # 0 THEN priorityDiff
     ELSE IF impactDiff # 0 THEN impactDiff
     ELSE IF a.key.actionable /\ ~b.key.actionable THEN -1
     ELSE IF ~a.key.actionable /\ b.key.actionable THEN 1
     ELSE 1
compareRecommendations(a, b) ==
  LET priorityDiff == priorityOrder(a.key.priority) - priorityOrder(b.key.priority)
      impactDiff ==
        priorityOrder(a.key.estimatedImpact) - priorityOrder(b.key.estimatedImpact)
  IN IF priorityDiff # 0 THEN priorityDiff
     ELSE IF impactDiff # 0 THEN impactDiff
     ELSE IF a.key.actionable /\ ~b.key.actionable THEN -1
     ELSE IF ~a.key.actionable /\ b.key.actionable THEN 1
     ELSE 0

\* Array.prototype.sort(comparator): a stable insertion of each element into
\* the sorted prefix; x goes right after the last element that does not
\* compare greater than x
InsertAt(sorted, k, x) == SubSeq(sorted, 1, k) \o <<x>> \o SubSeq(sorted, k + 1, Len(sorted))

InsertInsight(sorted, x) ==
  LET notAfter == {k \in DOMAIN sorted : compareInsights(sorted[k], x) <= 0}
  IN InsertAt(sorted, IF notAfter = {} THEN 0 ELSE CHOOSE k \in notAfter :
                                               \A j \in notAfter : j <= k, x)

RECURSIVE SortedInsights(_)
SortedInsights(insights) ==
  IF insights = <<>> THEN <<>>
  ELSE InsertInsight(SortedInsights(SubSeq(insights, 1, Len(insights) - 1)),
                     insights[Len(insights)])

InsertRecommendation(sorted, x) ==
  LET notAfter == {k \in DOMAIN sorted : compareRecommendations(sorted[k], x) <= 0}
  IN InsertAt(sorted, IF notAfter = {} THEN 0 ELSE CHOOSE k \in notAfter :
                                               \A j \in notAfter : j <= k, x)

RECURSIVE SortedRecommendations(_)
SortedRecommendations(recommendations) ==
  IF recommendations = <<>> THEN <<>>
  ELSE InsertRecommendation(
         SortedRecommendations(SubSeq(recommendations, 1, Len(recommendations) - 1)),
         recommendations[Len(recommendations)])

InitRanker ==
  \/ \E keys \in ListsOver(InsightKeys) :
       rk = [pc |-> "insights", original |-> Tagged(keys), input |-> <<>>,
             list |-> Tagged(keys), calls |-> 0]
  \/ \E keys \in ListsOver(RecommendationKeys) :
       rk = [pc |-> "recommendations", original |-> Tagged(keys), input |-> <<>>,
             list |-> Tagged(keys), calls |-> 0]

\* insights.sort(...) sorts the array in place and returns it
sortInsightsBySeverity ==
  /\ rk.pc = "insights"
  /\ rk.calls = 0
  /\ rk' = [rk EXCEPT !.calls = 1, !.input = rk.list, !.list = SortedInsights(rk.list)]

\* applied to a fresh list, then once more to the list it returned
prioritizeRecommendations ==
  /\ rk.pc = "recommendations"
  /\ rk.calls < 2
  /\ rk' = [rk EXCEPT !.calls = @ + 1, !.input = rk.list,
                      !.list = SortedRecommendations(rk.list)]

NextRanker ==
  \/ sortInsightsBySeverity
       /\ UNCHANGED <<goalVars, histVars, streakVars, batch, lg, auxVars, gs, pg, tr, wi, gi, hs>>
  \/ prioritizeRecommendations
       /\ UNCHANGED <<goalVars, histVars, streakVars, batch, lg, auxVars, gs, pg, tr, wi, gi, hs>>

InitSpecRanker ==
  InitGoals(RaceCatalogue) /\ AuxIdle /\ gs = GsIdle /\ pg = PgIdle /\ tr = TrIdle /\ wi = WiIdle
    /\ gi = GiIdle /\ hs = HsIdle /\ InitRanker

SpecRanker == InitSpecRanker /\ [][NextRanker]_vars

\* ------------------------------------------------------- generateInsights
\* generateInsights(userId) -> aggregateHealthData -> getWaterIntakeAnalytics,
\* then generateHealthInsights -> analyzeWaterIntakePatterns, then the sorts.
\* gi.insights, gi.recommendations and gi.milestones hold what the water
\* stage contributes to the response; the exercise, constipation, kriya,
\* typing, education and cross-domain stages only push further elements.
InsightCatalogue == <<[user_id |-> "u1", metric |-> "water_intake"]>>
\* amounts (ml) logged before an insight request
InsightAmounts == {1200, 1900, 2100}

\* SELECT ... FROM water_intake WHERE user_id = $1 AND date >= $2 ORDER BY date ASC
RECURSIVE DailyRows(_, _)
DailyRows(userId, days) ==
  IF days = {} THEN <<>>
  ELSE LET d == CHOOSE x \in days : \A y \in days : x <= y
       IN (IF water_intake[userId][d] > 0 THEN <<water_intake[userId][d]>> ELSE <<>>)
          \o DailyRows(userId, days \ {d})

\* first query of getWaterIntakeAnalytics and the figures computed from it
getWaterIntakeAnalytics(userId) ==
  /\ gi.pc = "idle"
  /\ LET daily == DailyRows(userId, Days)
         trendData == Trend(daily)
     IN gi' = [pc |-> "water", userId |-> userId,
               waterData |->
                 [average |-> IF Len(daily) > 0
                                THEN RoundDiv(reduceSum(daily), Len(daily)) ELSE 0,
                  trend |-> trendData.trend,
                  trendPercentage |-> trendData.percentage,
                  daysTracked |-> Len(daily),
                  goalProgress |-> <<>>],
               insights |-> <<>>, recommendations |-> <<>>, milestones |-> <<>>]
  /\ UNCHANGED goalVars

\* goalProgress: await this.calculateGoalProgress(userId, 'water_intake', average)
\* SELECT ... WHERE user_id AND metric AND status = 'active' ORDER BY created_at DESC LIMIT 1
WaterGoalProgress ==
  /\ gi.pc = "water"
  /\ LET rows == {g \in Goals : /\ user_goals[g].user_id = gi.userId
                                /\ user_goals[g].metric = "water_intake"
                                /\ user_goals[g].status = "active"}
         goal == CHOOSE g \in rows : \A h \in rows : h <= g
     IN gi' = [gi EXCEPT
                 !.pc = "aggregated",
                 !.waterData.goalProgress =
                   IF rows = {} THEN <<>>
                   ELSE <<GoalProgress(gi.waterData.average * 100, user_goals[goal].target)>>]
  /\ UNCHANGED goalVars

\* the insight objects as the sort sees them (one timestamp: built in one call)
AsRanked(insights) ==
  [i \in DOMAIN insights |->
     [id |-> i, message |-> insights[i].message,
      key |-> [severity |-> insights[i].severity, actionable |-> insights[i].actionable,
               timestamp |-> 1]]]
AsPrioritized(recommendations) ==
  [i \in DOMAIN recommendations |->
     [id |-> i, message |-> recommendations[i].message,
      key |-> [priority |-> recommendations[i].priority,
               estimatedImpact |-> recommendations[i].estimatedImpact,
               actionable |-> recommendations[i].actionable]]]

\* if (healthData.waterIntake) { analyzeWaterIntakePatterns(...) ; push } ...
\* sortInsightsBySeverity(insights); prioritizeRecommendations(recommendations)
generateHealthInsights ==
  /\ gi.pc = "aggregated"
  /\ LET waterInsights == WaterIntakePatterns(gi.waterData)
     IN gi' = [gi EXCEPT
                 !.pc = "done",
                 !.insights = SortedInsights(AsRanked(waterInsights.insights)),
                 !.recommendations =
                    SortedRecommendations(AsPrioritized(waterInsights.recommendations)),
                 !.milestones = waterInsights.milestones]
  /\ UNCHANGED goalVars

\* the response is sent; the next request may start
InsightsRespond ==
  /\ gi.pc = "done"
  /\ gi' = GiIdle
  /\ UNCHANGED goalVars

InsightLogStep ==
  \E u \in Writers, d \in Days, a \in InsightAmounts : addWaterIntake(u, d, a) /\ UNCHANGED gi

NextInsights ==
  \/ (\E u \in Users : getWaterIntakeAnalytics(u))
       /\ UNCHANGED <<histVars, streakVars, batch, lg, auxVars, gs, pg, tr, wi, rk, hs>>
  \/ WaterGoalProgress /\ UNCHANGED <<histVars, streakVars, batch, lg, auxVars, gs, pg, tr, wi, rk, hs>>
  \/ generateHealthInsights /\ UNCHANGED <<histVars, streakVars, batch, lg, auxVars, gs, pg, tr, wi, rk, hs>>
  \/ InsightsRespond /\ UNCHANGED <<histVars, streakVars, batch, lg, auxVars, gs, pg, tr, wi, rk, hs>>
  \/ InsightLogStep /\ UNCHANGED <<histVars, streakVars, batch, lg, auxVars, gs, pg, tr, wi, rk, hs>>

InitSpecInsights ==
  InitGoals(InsightCatalogue) /\ AuxIdle /\ gs = GsIdle /\ pg = PgIdle /\ tr = TrIdle /\ wi = WiIdle
    /\ rk = RkIdle /\ gi = GiIdle /\ hs = HsIdle

SpecInsights == InitSpecInsights /\ [][NextInsights]_vars

\* ---------------------------------------------- calculateOverallHealthScore
\* the aggregates healthData may hold; <<>> is an absent metric
HealthWaterAverages == {0, 1000, 2000, 2500}
HealthAverageSteps == {4000, 8000, 10000}
HealthRates == {0, 50, 100}
TypingRates == {0, 100}
\* COUNT(DISTINCT date) over the rows dated on or after startDate: entries
\* may carry any date, later ones included (addKriyaEntry checks only !date)
KriyaActiveDays == {0, 4, 7, 9}
\* Math.ceil((new Date() - startDate) / day) for a 7-day range: 7, or 8 once
\* the clock has moved on since startDate was taken
KriyaDaysDiff == {7, 8}

\* calculateConsistencyRate
calculateConsistencyRate(activeDays, daysDiff) ==
  IF daysDiff > 0 THEN RoundDiv(activeDays * 100, daysDiff) ELSE 0

HealthDataChoices ==
  [waterIntake : Optional(HealthWaterAverages),
   exercise : Optional(HealthAverageSteps),
   constipation : Optional(HealthRates),
   kriya : Optional({calculateConsistencyRate(a, d) : a \in KriyaActiveDays, d \in KriyaDaysDiff}),
   typing : Optional(TypingRates)]

\* score and metrics after the five if-blocks, then Math.round(score / metrics);
\* (average / 2000) * 100 is average / 20 and (averageSteps / 8000) * 100 is
\* averageSteps / 80 (whole numbers for the averages above)
OverallHealthScore(healthData) ==
  LET water == IF healthData.waterIntake = <<>> THEN 0
               ELSE Min(healthData.waterIntake[1] \div 20, 100)
      exercise == IF healthData.exercise = <<>> THEN 0
                  ELSE Min(healthData.exercise[1] \div 80, 100)
      constipation == IF healthData.constipation = <<>> THEN 0
                      ELSE healthData.constipation[1]
      kriya == IF healthData.kriya = <<>> THEN 0 ELSE healthData.kriya[1]
      typing == IF healthData.typing = <<>> THEN 0 ELSE healthData.typing[1]
      score == water + exercise + constipation + kriya + typing
      metrics == Cardinality({m \in DOMAIN healthData : healthData[m] # <<>>})
  IN IF metrics > 0 THEN RoundDiv(score, metrics) ELSE 0

InitHealthScore ==
  \E healthData \in HealthDataChoices :
    hs = [pc |-> "ready", healthData |-> healthData, score |-> 0]

calculateOverallHealthScore ==
  /\ hs.pc = "ready"
  /\ hs' = [hs EXCEPT !.pc = "done", !.score = OverallHealthScore(hs.healthData)]

NextHealthScore ==
  calculateOverallHealthScore
    /\ UNCHANGED <<goalVars, histVars, streakVars, batch, lg, auxVars, gs, pg, tr, wi, rk, gi>>

InitSpecHealthScore ==
  InitGoals(RaceCatalogue) /\ AuxIdle /\ gs = GsIdle /\ pg = PgIdle /\ tr = TrIdle /\ wi = WiIdle
    /\ rk = RkIdle /\ gi = GiIdle /\ InitHealthScore

SpecHealthScore == InitSpecHealthScore /\ [][NextHealthScore]_vars

\* ------------------------------------------------------ analytics router
\* routes/analytics.js mounted at /analytics; a path is its segments after
\* the mount point.  Every request here has passed authenticateToken
\* (req.user.id is set).
Routes ==
  <<[method |-> "GET", path |-> <<"health">>, handler |-> "getHealthAnalytics"],
    [method |-> "GET", path |-> <<"education">>, handler |-> "getEducationAnalytics"],
    [method |-> "GET", path |-> <<"insights">>, handler |-> "getPersonalizedInsights"],
    [method |-> "GET", path |-> <<"goals">>, handler |-> "getGoals"],
    [method |-> "POST", path |-> <<"goals">>, handler |-> "createGoal"],
    [method |-> "PUT", path |-> <<"goals", ":id">>, handler |-> "updateGoal"],
    [method |-> "GET", path |-> <<"goals", "achievements">>,
     handler |-> "checkGoalAchievements"],
    [method |-> "GET", path |-> <<"goals", "streaks">>, handler |-> "getGoalStreaks"],
    [method |-> "GET", path |-> <<"goals", "stats">>, handler |-> "getGoalCompletionStats"],
    [method |-> "POST", path |-> <<"goals", ":id", "reminder">>,
     handler |-> "setGoalReminder"],
    [method |-> "GET", path |-> <<"export">>, handler |-> "exportAnalytics"]>>

Methods == {"GET", "POST", "PUT"}
RequestPaths ==
  {<<"health">>, <<"insights">>, <<"export">>, <<"goals">>, <<"goals", "7">>,
   <<"goals", "achievements">>, <<"goals", "check-achievements">>,
   <<"goals", "streaks">>, <<"goals", "stats">>, <<"goals", "7", "reminder">>}

\* what analyticsService.checkGoalAchievements(userId) gives the controller:
\* it rejects, or resolves to the goals it completed
AchievedLists ==
  {<<>>,
   <<[id |-> 1, type |-> "health", metric |-> "water_intake", achievedValue |-> 2100]>>,
   <<[id |-> 1, type |-> "health", metric |-> "water_intake", achievedValue |-> 1500],
     [id |-> 2, type |-> "health", metric |-> "kriya_sessions", achievedValue |-> 12]>>}
ServiceOutcomes == [rejects : BOOLEAN, achievedGoals : AchievedLists]

\* Express: a path segment matches a literal segment or a :param
SegmentsMatch(pattern, path) ==
  /\ Len(pattern) = Len(path)
  /\ \A i \in DOMAIN pattern : pattern[i] = path[i] \/ pattern[i] = ":id"

\* the first route, in registration order, of that method and path
RouteFor(method, path) ==
  LET hits == {i \in DOMAIN Routes :
                 /\ Routes[i].method = method
                 /\ SegmentsMatch(Routes[i].path, path)}
  IN IF hits = {} THEN "notFound"
     ELSE Routes[CHOOSE i \in hits : \A j \in hits : i <= j].handler

\* generateAchievementNotifications: one goal_achievement per goal, and a
\* milestone after it for a health water_intake goal reached with >= 2000 or
\* an education study_hours goal reached with >= 4
RECURSIVE AchievementNotifications(_)
AchievementNotifications(goals) ==
  IF goals = <<>> THEN <<>>
  ELSE LET goal == Head(goals)
       IN <<[type |-> "goal_achievement", goalId |-> goal.id]>>
          \o (IF goal.type = "health" /\ goal.metric = "water_intake"
                   /\ goal.achievedValue >= 2000
                THEN <<[type |-> "milestone", goalId |-> 0]>> ELSE <<>>)
          \o (IF goal.type = "education" /\ goal.metric = "study_hours"
                   /\ goal.achievedValue >= 4
                THEN <<[type |-> "milestone", goalId |-> 0]>> ELSE <<>>)
          \o AchievementNotifications(Tail(goals))

InitRouter ==
  \E method \in Methods, path \in RequestPaths, u \in Users, service \in ServiceOutcomes :
    rt = [pc |-> "received", method |-> method, path |-> path, userId |-> u,
          service |-> service, handler |-> "none", status |-> 0, body |-> <<>>]

\* the router picks the handler; with no route Express answers 404
RouterDispatch ==
  /\ rt.pc = "received"
  /\ LET handler == RouteFor(rt.method, rt.path)
     IN rt' = IF handler = "notFound"
              THEN [rt EXCEPT !.pc = "responded", !.handler = handler, !.status = 404]
              ELSE [rt EXCEPT !.pc = "handling", !.handler = handler]

\* analyticsController.checkGoalAchievements
checkGoalAchievementsController ==
  /\ rt.pc = "handling"
  /\ rt.handler = "checkGoalAchievements"
  /\ rt' = IF rt.service.rejects
           THEN [rt EXCEPT !.pc = "responded", !.status = 500,
                           !.body = <<[success |-> FALSE,
                                       error |-> "Failed to check goal achievements"]>>]
           ELSE [rt EXCEPT !.pc = "responded", !.status = 200,
                           !.body = <<[success |-> TRUE,
                                       achievedGoals |-> rt.service.achievedGoals,
                                       notifications |->
                                         AchievementNotifications(rt.service.achievedGoals),
                                       count |-> Len(rt.service.achievedGoals)]>>]

\* any other controller takes the request; its response is left open
OtherController ==
  /\ rt.pc = "handling"
  /\ rt.handler # "checkGoalAchievements"
  /\ rt' = [rt EXCEPT !.pc = "taken"]

NextRouter ==
  \/ RouterDispatch
       /\ UNCHANGED <<goalVars, histVars, streakVars, batch, gs, pg, insightVars, lg,
                      cp, pp, written>>
  \/ checkGoalAchievementsController
       /\ UNCHANGED <<goalVars, histVars, streakVars, batch, gs, pg, insightVars, lg,
                      cp, pp, written>>
  \/ OtherController
       /\ UNCHANGED <<goalVars, histVars, streakVars, batch, gs, pg, insightVars, lg,
                      cp, pp, written>>

InitSpecRouter ==
  InitGoals(RaceCatalogue) /\ gs = GsIdle /\ pg = PgIdle /\ InsightIdle
    /\ cp = CpIdle /\ pp = PpIdle /\ written = {} /\ InitRouter

SpecRouter == InitSpecRouter /\ [][NextRouter]_vars

\* ------------------------------------------ calculateStudyConsistencyPatterns
\* study_logs has UNIQUE(user_id, date) and the query orders by date, so the
\* rows carry strictly ascending dates. Dates are day numbers; the clock is
\* counted in quarter days since midnight of day 0 (the startDate), so that
\* 4 * d is midnight of day d and 4 * d + 2 is its noon.
MaxStudyDate == 6
MaxNowQuarters == 31

StudyDates == 1..MaxStudyDate
NowChoices == 4..MaxNowQuarters

RECURSIVE AscendingSeq(_)
AscendingSeq(S) ==
  IF S = {} THEN <<>>
  ELSE LET d == CHOOSE x \in S : \A y \in S : x <= y
       IN <<d>> \o AscendingSeq(S \ {d})

\* Math.max(...gaps)
RECURSIVE MaxOfSeq(_)
MaxOfSeq(values) ==
  IF Len(values) = 1 THEN values[1]
  ELSE Max(Head(values), MaxOfSeq(Tail(values)))

\* the loop over studyDays[1..]: acc is (streaks, gaps, currentStreak,
\* longestStreak) before iteration i
RECURSIVE StreakWalk(_, _, _)
StreakWalk(studyDays, i, acc) ==
  IF i > Len(studyDays) THEN acc
  ELSE LET daysDiff == studyDays[i] - studyDays[i - 1]
       IN StreakWalk(studyDays, i + 1,
            IF daysDiff = 1
            THEN [acc EXCEPT !.currentStreak = acc.currentStreak + 1]
            ELSE [streaks |-> Append(acc.streaks, acc.currentStreak),
                  gaps |-> Append(acc.gaps, daysDiff - 1),
                  currentStreak |-> 1,
                  longestStreak |-> Max(acc.longestStreak, acc.currentStreak)])

AverageGapTruncated(gaps) ==
  IF Len(gaps) > 0 THEN reduceSum(gaps) \div Len(gaps) ELSE 0
\* gaps.length > 0 ? Math.round(gaps.reduce(...) / gaps.length) : 0
AverageGap(gaps) ==
  IF Len(gaps) > 0 THEN RoundDiv(reduceSum(gaps), Len(gaps)) ELSE 0

StudyConsistencyPatterns(studyDays, nowQuarters) ==
  LET totalDays == (nowQuarters + 3) \div 4
  IN IF Len(studyDays) = 0
     THEN [totalDays |-> totalDays, studyDays |-> 0, consistencyRate |-> 0,
           longestStreak |-> 0, currentStreak |-> 0,
           averageGapBetweenSessions |-> 0, patterns |-> <<>>]
     ELSE LET walk == StreakWalk(studyDays, 2,
                        [streaks |-> <<>>, gaps |-> <<>>, currentStreak |-> 1,
                         longestStreak |-> 1])
              streaks == Append(walk.streaks, walk.currentStreak)
              gaps == walk.gaps
              longestStreak == Max(walk.longestStreak, walk.currentStreak)
              lastStudyDate == studyDays[Len(studyDays)]
              daysSinceLastStudy == RoundDiv(nowQuarters - 4 * lastStudyDate, 4)
          IN [totalDays |-> totalDays,
              studyDays |-> Len(studyDays),
              consistencyRate |-> RoundDiv(Len(studyDays) * 100, totalDays),
              longestStreak |-> longestStreak,
              currentStreak |->
                IF daysSinceLastStudy <= 1 THEN walk.currentStreak ELSE 0,
              averageGapBetweenSessions |-> AverageGap(gaps),
              patterns |->
                <<[totalStreaks |-> Len(streaks),
                   averageStreakLength |-> RoundDiv(reduceSum(streaks), Len(streaks)),
                   totalGaps |-> Len(gaps),
                   longestGap |-> IF Len(gaps) > 0 THEN MaxOfSeq(gaps) ELSE 0]>>]

InitConsistency ==
  \E dates \in SUBSET StudyDates, now \in NowChoices :
    cp = [pc |-> "ready", dates |-> dates, now |-> now, result |-> <<>>]

calculateStudyConsistencyPatterns ==
  /\ cp.pc = "ready"
  /\ cp' = [cp EXCEPT !.pc = "done",
              !.result = <<StudyConsistencyPatterns(AscendingSeq(cp.dates), cp.now)>>]

NextConsistency ==
  calculateStudyConsistencyPatterns
    /\ UNCHANGED <<goalVars, histVars, streakVars, batch, gs, pg, insightVars, lg,
                   rt, pp, written>>

InitSpecConsistency ==
  InitGoals(RaceCatalogue) /\ gs = GsIdle /\ pg = PgIdle /\ InsightIdle
    /\ rt = RtIdle /\ pp = PpIdle /\ written = {} /\ InitConsistency

SpecConsistency == InitSpecConsistency /\ [][NextConsistency]_vars

\* ------------------------------------------------ getPreviousPeriodComparison
\* Instants are counted in ticks, TicksPerDay to the day; date d starts at
\* tick d * TicksPerDay. aggregateHealthData takes startDate = new Date() minus
\* `days` days, awaits at least one query, and getPreviousPeriodComparison
\* reads the clock again `elapsed` ticks later. The date columns are DATE, so
\* the store compares them with the date part of the bound instants.
TicksPerDay == 4
MaxRangeDays == 4
MaxElapsed == 2

RangeDays == 1..MaxRangeDays
CallInstants == 0..(2 * TicksPerDay - 1)
ElapsedChoices == 0..MaxElapsed

DateOf(instant) == instant \div TicksPerDay
\* Math.ceil(n / d) for d > 0
CeilDiv(n, d) == (n + d - 1) \div d

\* the dates the query selects (date >= $2 AND date <= $3) and the two
\* reported bounds
PreviousPeriod(currentStartDate, now) ==
  LET daysDiff == CeilDiv(now - currentStartDate, TicksPerDay)
      previousStartDate == currentStartDate - daysDiff * TicksPerDay
      previousEndDate == currentStartDate - TicksPerDay
  IN [periodStart |-> DateOf(previousStartDate),
      periodEnd |-> DateOf(previousEndDate),
      queried |-> DateOf(previousStartDate)..DateOf(previousEndDate)]

\* aggregateHealthData: startDate.setDate(startDate.getDate() - days)
InitPreviousPeriod ==
  \E days \in RangeDays, called \in CallInstants, elapsed \in ElapsedChoices :
    pp = [pc |-> "ready", days |-> days,
          currentStartDate |-> called - days * TicksPerDay,
          now |-> called + elapsed, result |-> <<>>]

getPreviousPeriodComparison ==
  /\ pp.pc = "ready"
  /\ pp' = [pp EXCEPT !.pc = "done",
              !.result = <<PreviousPeriod(pp.currentStartDate, pp.now)>>]

NextPreviousPeriod ==
  getPreviousPeriodComparison
    /\ UNCHANGED <<goalVars, histVars, streakVars, batch, gs, pg, insightVars, lg,
                   rt, cp, written>>

InitSpecPreviousPeriod ==
  InitGoals(RaceCatalogue) /\ gs = GsIdle /\ pg = PgIdle /\ InsightIdle
    /\ rt = RtIdle /\ cp = CpIdle /\ written = {} /\ InitPreviousPeriod

SpecPreviousPeriod == InitSpecPreviousPeriod /\ [][NextPreviousPeriod]_vars

\* ------------------------------------------------ a query that rejects
\* One checkGoalAchievements call at a time, where any awaited query of the
\* loop (getCurrentMetricValue, the UPDATE, the INSERT) may reject. Nothing
\* in the service catches the rejection or opens a transaction: the loop is
\* left, the writes already made stay, and the controller answers 500.
QueryRejects(p) ==
  /\ pc[p] \in {"value", "update", "record"}
  /\ pc' = [pc EXCEPT ![p] = "idle"]
  /\ caller' = [caller EXCEPT ![p] = Null]
  /\ pending' = [pending EXCEPT ![p] = <<>>]
  /\ currentValue' = [currentValue EXCEPT ![p] = 0]
  /\ achievedGoals' = [achievedGoals EXCEPT ![p] = <<>>]
  /\ pre' = <<>>
  /\ quiet' = {}
  /\ UNCHANGED <<user_goals, goal_achievements, water_intake, shambhavi_kriya,
                 study_logs, reopened>>
  /\ UNCHANGED <<streakVars, batch, pureVars>>

RejectWrite ==
  /\ AllIdle
  /\ LogStep
  /\ quiet' = {}
  /\ UNCHANGED <<pre, streakVars, batch, pureVars>>

NextReject ==
  \/ \E p \in SeqProcs, u \in Users : SeqScan(p, u)
  \/ \E p \in SeqProcs : SeqBody(p)
  \/ \E p \in SeqProcs : SeqRespond(p)
  \/ \E p \in SeqProcs : QueryRejects(p)
  \/ RejectWrite

InitReject == InitGoals(SeqCatalogue) /\ InitPure

SpecReject == InitReject /\ [][NextReject]_vars

\* ------------------------------------------- completed writes, one at a time
\* The logging routes call updateUserStreak(userId, type, date, true) with
\* the date of the request body, so entries may arrive in any date order.
\* written records the dates of the completed writes that reached the store.
CompletedSelect(p, date) ==
  /\ AllStreakIdle
  /\ updateUserStreak(p, date, TRUE)
  /\ UNCHANGED written

CompletedWrite(p) ==
  /\ StreakWrite(p)
  /\ written' = IF spc'[p] = "ok" THEN written \cup {sreq[p].date} ELSE written

CompletedReturn(p) ==
  /\ StreakReturn(p)
  /\ UNCHANGED written

NextCompleted ==
  \/ \E p \in SeqProcs, d \in StreakDays :
       CompletedSelect(p, d)
         /\ UNCHANGED <<goalVars, histVars, batch, gs, pg, insightVars, lg, rt, cp, pp>>
  \/ \E p \in SeqProcs :
       CompletedWrite(p)
         /\ UNCHANGED <<goalVars, histVars, batch, gs, pg, insightVars, lg, rt, cp, pp>>
  \/ \E p \in SeqProcs :
       CompletedReturn(p)
         /\ UNCHANGED <<goalVars, histVars, batch, gs, pg, insightVars, lg, rt, cp, pp>>

SpecCompleted == Init /\ [][NextCompleted]_vars

\* ------------------------------------------- streak calls, one at a time
\* updateUserStreak (completed or not) and resetUserStreak, each call running
\* from its first query to its return before the next begins.
SerialSelect(p, date, completed) ==
  /\ AllStreakIdle
  /\ updateUserStreak(p, date, completed)

SerialReset ==
  /\ AllStreakIdle
  /\ resetUserStreak

NextSerial ==
  \/ \E p \in SeqProcs, d \in StreakDays, c \in BOOLEAN :
       SerialSelect(p, d, c) /\ UNCHANGED <<goalVars, histVars, batch, pureVars>>
  \/ \E p \in SeqProcs : StreakWrite(p) /\ UNCHANGED <<goalVars, histVars, batch, pureVars>>
  \/ \E p \in SeqProcs : StreakReturn(p) /\ UNCHANGED <<goalVars, histVars, batch, pureVars>>
  \/ SerialReset /\ UNCHANGED <<goalVars, histVars, batch, pureVars>>

SpecSerial == Init /\ [][NextSerial]_vars

\* ------------------------------------------------------ claims: goals
RowsOf(g) == {i \in DOMAIN goal_achievements : goal_achievements[i].goal_id = g}

\* C1 (as claimed): while no goal has been reopened, concurrent
\* checkGoalAchievements calls leave at most one goal_achievements row per goal.
C1_OneRowPerCrossing ==
  reopened = 0 => \A g \in Goals : Cardinality(RowsOf(g)) <= 1

\* C2 (as claimed): a completed goal stays completed under every operation.
C2_CompletedIsTerminal ==
  [][\A g \in Goals :
       user_goals[g].status = "completed" => user_goals'[g].status = "completed"]_vars

\* C2 (amended): a completed goal leaves 'completed' only in an updateGoal call
\* of its owner that sends another status; no checkGoalAchievements step does it.
C2_OnlyUpdateGoalReopens ==
  [][\A g \in Goals :
       (user_goals[g].status = "completed" /\ user_goals'[g].status # "completed")
       => \E t \in Optional(TargetChoices), st \in Statuses \ {"completed"} :
            updateGoal(user_goals[g].user_id, g, t, <<st>>)]_vars

\* a check is about to write the status of a goal that is already completed,
\* after a reopening by updateGoal
C2_Witness ==
  /\ reopened = 1
  /\ \E p \in Procs :
       pc[p] = "update" /\ user_goals[Head(pending[p]).id].status = "completed"

StatusMap == [g \in Goals |-> user_goals[g].status]

\* C3: a check that follows a check of the same user with no write in between
\* returns an empty list and changes neither a status nor goal_achievements.
C3_SecondCheckIsEmpty ==
  \A p \in Procs :
    (pc[p] = "returned" /\ pre # <<>> /\ pre[1].quiet)
    => /\ achievedGoals[p] = <<>>
       /\ StatusMap = pre[1].status
       /\ goal_achievements = pre[1].rows

\* the second check has returned while a completed goal of the caller still
\* meets its target
C3_Witness ==
  \E p \in Procs :
    /\ pc[p] = "returned" /\ pre # <<>> /\ pre[1].quiet
    /\ \E g \in Goals :
         /\ user_goals[g].user_id = caller[p]
         /\ user_goals[g].status = "completed"
         /\ RowsOf(g) # {}
         /\ getCurrentMetricValue(caller[p], user_goals[g].metric) * 100
              >= user_goals[g].target

\* the goals a call of userId must complete, from the store at its scan
ShouldComplete(userId) ==
  {g \in Goals :
     /\ user_goals[g].user_id = userId
     /\ pre[1].status[g] = "active"
     /\ getCurrentMetricValue(userId, user_goals[g].metric) * 100 >= user_goals[g].target}

NewRows == SubSeq(goal_achievements, Len(pre[1].rows) + 1, Len(goal_achievements))

\* C4: a returned call has completed exactly the caller's goals that were
\* active and at or above target, one row and one result entry each with the
\* uncapped value; every other goal keeps its status and gets no row.
C4_CompletesExactlyAchieved ==
  \A p \in Procs :
    (pc[p] = "returned" /\ pre # <<>>)
    => LET u == caller[p]
           should == ShouldComplete(u)
           val(g) == getCurrentMetricValue(u, user_goals[g].metric)
       IN /\ \A g \in Goals :
               user_goals[g].status =
                 IF g \in should THEN "completed" ELSE pre[1].status[g]
          /\ SubSeq(goal_achievements, 1, Len(pre[1].rows)) = pre[1].rows
          /\ Len(NewRows) = Cardinality(should)
          /\ {NewRows[i] : i \in DOMAIN NewRows}
               = {[user_id |-> u, goal_id |-> g, achieved_value |-> val(g)] : g \in should}
          /\ Len(achievedGoals[p]) = Cardinality(should)
          /\ {achievedGoals[p][i] : i \in DOMAIN achievedGoals[p]}
               = {[id |-> g, achievedValue |-> val(g)] : g \in should}

\* a call has returned a goal whose value exceeds its target while another
\* goal of the caller is paused and the other user's goal is untouched
C4_Witness ==
  \E p \in Procs :
    /\ pc[p] = "returned" /\ pre # <<>>
    /\ \E i \in DOMAIN achievedGoals[p] :
         achievedGoals[p][i].achievedValue * 100 > user_goals[achievedGoals[p][i].id].target
    /\ \E g \in Goals : user_goals[g].user_id = caller[p] /\ user_goals[g].status = "paused"
    /\ \E g \in Goals : user_goals[g].user_id # caller[p] /\ user_goals[g].status = "active"

\* the user's actual trailing average (or count) is at least the target
ActualMeetsTarget(userId, metric, target) ==
  CASE metric = "water_intake" ->
         LET rows == {d \in Days : water_intake[userId][d] > 0}
         IN rows # {} /\ SumOver(water_intake[userId], rows) * 100
                          >= target * Cardinality(rows)
    [] metric = "kriya_sessions" -> Cardinality(shambhavi_kriya[userId]) * 100 >= target
    [] OTHER -> FALSE

\* C8 (as claimed): a goal is marked completed only when the actual 30-day
\* average (or count) of its metric is at least the target.
C8_ExactComparison ==
  \A p \in Procs :
    pc[p] = "update"
    => ActualMeetsTarget(caller[p], Head(pending[p]).metric, Head(pending[p]).target)

\* ---------------------------------------------------- claims: streaks
\* the row after one updateUserStreak call run alone on the row `rows`
SerialRun(rows, call) ==
  IF call.completed THEN <<StreakAfterActivity(rows, call.date)>>
  ELSE IF rows # <<>> /\ call.date - rows[1].last_activity_date > 1
       THEN <<[rows[1] EXCEPT !.current_streak = 0]>>
       ELSE rows

\* C5 (as claimed): once two overlapping updateUserStreak calls have both
\* finished, the stored row is the one some serial order of the two produces.
C5_Serializable ==
  (/\ batch # <<>>
   /\ Len(batch[1].calls) = 2
   /\ \A p \in Procs : spc[p] # "write")
  => LET b == batch[1].base
         c1 == batch[1].calls[1]
         c2 == batch[1].calls[2]
     IN user_streaks \in {SerialRun(SerialRun(b, c1), c2), SerialRun(SerialRun(b, c2), c1)}

\* C6 (as claimed): longest_streak of the stored row never decreases.
C6_LongestNeverDecreases ==
  [][user_streaks # <<>>
     => /\ user_streaks' # <<>>
        /\ user_streaks'[1].longest_streak >= user_streaks[1].longest_streak]_vars

\* ------------------------------------------------ claims: goal streak
\* the number of consecutive days meeting the target that end at the last day
RECURSIVE TrailingRun(_, _)
TrailingRun(values, target) ==
  IF values = <<>> \/ values[Len(values)] * 100 < target THEN 0
  ELSE 1 + TrailingRun(SubSeq(values, 1, Len(values) - 1), target)

\* C7 (as claimed): calculateGoalStreak returns currentStreak equal to the run
\* of target-meeting days ending at the most recent day; [1800,1800,2100,2200]
\* with target 2000 gives currentStreak 2 and longestStreak 2.
C7_CurrentStreakIsTrailingRun ==
  (gs.pc = "done" /\ gs.hasGoal)
  => /\ gs.currentStreak = TrailingRun(gs.dailyValues, gs.target)
     /\ (gs.dailyValues = <<1800, 1800, 2100, 2200>> /\ gs.target = 200000)
        => (gs.currentStreak = 2 /\ gs.longestStreak = 2)

\* ---------------------------------------------- claims: goal progress
ProgressResults ==
  {pg.detailed[i] : i \in DOMAIN pg.detailed}
    \cup {pg.simple[i] : i \in {j \in DOMAIN pg.simple : pg.hasGoal}}

\* C9: every reported progress lies in 0..100, also above target and for
\* targets <= 0.
C9_ProgressWithinBounds ==
  pg.pc = "ready" => \A r \in ProgressResults : 0 <= r.progress /\ r.progress <= 100

\* both functions have reported 100 for a value above a positive target
C9_Witness ==
  /\ pg.pc = "ready"
  /\ pg.target > 0 /\ pg.currentValue > pg.target
  /\ pg.hasGoal /\ pg.detailed # <<>> /\ pg.simple # <<>>
  /\ pg.detailed[1].progress = 100 /\ pg.simple[1].progress = 100

\* Math.round(currentValue / target * 100) as JavaScript evaluates it:
\* x / 0 is Infinity for x > 0 and NaN for x = 0 (every comparison with NaN
\* is false); for a negative target the quotient is <= 0
StatusOfRawPercentage(current, target) ==
  IF target = 0 THEN (IF current > 0 THEN "achieved" ELSE "needs_attention")
  ELSE IF target < 0 THEN "needs_attention"
  ELSE LET pct == CHOOSE q \in 0..(100 * current + 1) :
                    2 * target * q - target <= 200 * current
                    /\ 200 * current < 2 * target * q + target
       IN IF pct >= 100 THEN "achieved"
          ELSE IF pct >= 80 THEN "on_track"
          ELSE IF pct >= 50 THEN "behind"
          ELSE "needs_attention"

\* C10 (as claimed): the status is the threshold class of
\* round(currentValue / target * 100), for every target, and both functions agree.
C10_StatusFromRawPercentage ==
  pg.pc = "ready"
  => /\ \A r \in ProgressResults : r.status = StatusOfRawPercentage(pg.currentValue, pg.target)
     /\ \A r1, r2 \in ProgressResults : r1.status = r2.status

\* C10 (amended): for target > 0 the status is the threshold class of
\* round(currentValue / target * 100); for target <= 0 it is needs_attention;
\* both functions agree.
C10_StatusThresholds ==
  pg.pc = "ready"
  => /\ \A r \in ProgressResults :
          r.status = IF pg.target > 0
                     THEN StatusOfRawPercentage(pg.currentValue, pg.target)
                     ELSE "needs_attention"
     /\ \A r1, r2 \in ProgressResults : r1.status = r2.status

\* both functions have classified a value at 87.5 percent, which rounds to 88
C10_Witness ==
  /\ pg.pc = "ready"
  /\ pg.hasGoal /\ pg.detailed # <<>> /\ pg.simple # <<>>
  /\ pg.target > 0
  /\ 8 * pg.currentValue = 7 * pg.target
  /\ pg.detailed[1].status = "on_track" /\ pg.simple[1].status = "on_track"

\* ------------------------------------------------------ claims: trend
\* C11: calculateTrend returns {trend: insufficient_data, percentage: 0} for
\* the empty series and for every one-element series.
C11_ShortSeriesInsufficient ==
  (tr.pc = "done" /\ Len(tr.values) < 2)
    => tr.result = <<[trend |-> "insufficient_data", percentage |-> 0]>>

C11_Witness ==
  /\ tr.pc = "done"
  /\ Len(tr.values) = 1
  /\ tr.values[1] # 0
  /\ tr.result[1].trend = "insufficient_data"

\* Math.round(n / d) for any n and any d # 0
RoundRatio(n, d) == IF d > 0 THEN RoundDiv(n, d) ELSE RoundDiv(-n, -d)

\* the percentage the claim describes: 0 only when avg(firstHalf) = 0
ClaimedPercentage(values) ==
  LET midPoint == Len(values) \div 2
      s1 == reduceSum(SubSeq(values, 1, midPoint))
      s2 == reduceSum(SubSeq(values, midPoint + 1, Len(values)))
      n1 == midPoint
      n2 == Len(values) - midPoint
  IN IF s1 = 0 THEN 0 ELSE RoundRatio((s2 * n1 - s1 * n2) * 100, s1 * n2)

\* C12 (as claimed): for every series of n >= 2 values the percentage is
\* round((avg(secondHalf) - avg(firstHalf)) / avg(firstHalf) * 100), replaced
\* by 0 only when avg(firstHalf) = 0, and the trend is increasing above 10,
\* decreasing below -10 and stable otherwise.
C12_HalfSplitPercentage ==
  (tr.pc = "done" /\ Len(tr.values) >= 2)
    => /\ tr.result[1].percentage = ClaimedPercentage(tr.values)
       /\ tr.result[1].trend = TrendClass(ClaimedPercentage(tr.values))

\* ------------------------------------------- claims: water intake insights
SeveritiesOf(insights) == {insights[i].severity : i \in DOMAIN insights}
CountOf(insights, severity) ==
  Cardinality({i \in DOMAIN insights : insights[i].severity = severity})

C15_PositiveFromFifteen ==
  (wi.pc = "done" /\ wi.waterData.trend = "increasing"
     /\ wi.waterData.trendPercentage >= 15)
    => /\ \E i \in DOMAIN wi.result[1].insights :
            /\ wi.result[1].insights[i].severity = "positive"
            /\ wi.result[1].insights[i].message = "improved by"
            /\ wi.result[1].insights[i].percent = wi.waterData.trendPercentage
       /\ wi.waterData.average >= 2000 => Len(wi.result[1].milestones) >= 1

\* ------------------------------------------------------- claims: ranker
ElementsOf(list) == {list[i] : i \in DOMAIN list}

\* a precedes-or-ties b on (severity rank, actionable first, newest first)
InsightKeyBefore(a, b) ==
  LET ra == severityOrder(a.key.severity)
      rb == severityOrder(b.key.severity)
      na == IF a.key.actionable THEN 0 ELSE 1
      nb == IF b.key.actionable THEN 0 ELSE 1
  IN \/ ra < rb
     \/ ra = rb /\ na < nb
     \/ ra = rb /\ na = nb /\ a.key.timestamp >= b.key.timestamp

\* C16: sortInsightsBySeverity returns a permutation of its input ordered by
\* severity rank, then actionable before non-actionable, then newest
\* timestamp first, and insights equal on all three keys keep their input
\* relative order.
C16_SortedStablePermutation ==
  (rk.pc = "insights" /\ rk.calls = 1) =>
    /\ Len(rk.list) = Len(rk.input)
    /\ ElementsOf(rk.list) = ElementsOf(rk.input)
    /\ \A i, j \in DOMAIN rk.list :
         i < j => /\ InsightKeyBefore(rk.list[i], rk.list[j])
                  /\ rk.list[i].key = rk.list[j].key => rk.list[i].id < rk.list[j].id

C16_Witness ==
  /\ rk.pc = "insights"
  /\ rk.calls = 1
  /\ rk.list # rk.input
  /\ \E i, j \in DOMAIN rk.list : i # j /\ rk.list[i].key = rk.list[j].key
  /\ \E i, j \in DOMAIN rk.list :
       /\ rk.list[i].key.severity = rk.list[j].key.severity
       /\ rk.list[i].key.actionable = rk.list[j].key.actionable
       /\ rk.list[i].key.timestamp # rk.list[j].key.timestamp

\* C17: prioritizeRecommendations applied to the list it returned gives the
\* same order again: prioritize(prioritize(L)) = prioritize(L).
C17_PrioritizeIdempotent ==
  (rk.pc = "recommendations" /\ rk.calls = 2) => rk.list = rk.input

C17_Witness ==
  /\ rk.pc = "recommendations"
  /\ rk.calls = 2
  /\ rk.input # rk.original
  /\ \E i, j \in DOMAIN rk.list : i # j /\ rk.list[i].key = rk.list[j].key

\* ----------------------------------------------- claims: generateInsights
\* no metric rows and no goals for the user
ColdStart(userId) ==
  /\ \A d \in Days : water_intake[userId][d] = 0
  /\ shambhavi_kriya[userId] = {}
  /\ \A g \in Goals : user_goals[g].user_id # userId

\* C13 (as claimed): for a user with no metric rows, no goals and no
\* education rows, generateInsights run through the real aggregates returns
\* no insights.
C13_NoInsightFromAbsentData ==
  (gi.pc = "done" /\ ColdStart(gi.userId)) => gi.insights = <<>>

\* --------------------------------------------------- claims: health score
\* the five per-metric scores the claim lists, absent metrics left out
ClaimedMetricScores(healthData) ==
  [m \in {n \in DOMAIN healthData : healthData[n] # <<>>} |->
     CASE m = "waterIntake" -> Min(healthData[m][1] \div 20, 100)
       [] m = "exercise" -> Min(healthData[m][1] \div 80, 100)
       [] OTHER -> healthData[m][1]]

\* C18 (as claimed): the score is the rounded mean of the scores of the
\* metrics present, an input with no metric scores 0, and the score never
\* exceeds 100.
C18_HealthScoreMeanWithin100 ==
  hs.pc = "done" =>
    LET scores == ClaimedMetricScores(hs.healthData)
    IN /\ hs.score = IF DOMAIN scores = {} THEN 0
                     ELSE RoundDiv(SumOver(scores, DOMAIN scores),
                                   Cardinality(DOMAIN scores))
       /\ hs.score <= 100

\* ------------------------------------------------ claims: metric keys
SupportedMetricKeys ==
  {"water_intake", "exercise_steps", "study_hours", "kriya_sessions",
   "typing_completion_rate", "constipation_positive_rate", "task_completion_rate",
   "daily_study_hours"}

\* the user's stored rows for the key average (or count) at least the target
DataMeetsTarget(userId, metric, target) ==
  IF metric \in {"study_hours", "daily_study_hours"}
    THEN LET rows == {d \in Days : study_logs[userId][d] > 0}
         IN rows # {} /\ SumOver(study_logs[userId], rows) * 100
                          >= target * Cardinality(rows)
    ELSE ActualMeetsTarget(userId, metric, target)

\* C19 (as claimed): once a checkGoalAchievements call has returned, every
\* goal of the caller that was active at its scan, is on a supported metric
\* key and whose stored data meets the target is completed.
C19_SupportedKeyCompletes ==
  \A p \in Procs :
    (pc[p] = "returned" /\ pre # <<>>)
    => \A g \in Goals :
         (/\ user_goals[g].user_id = caller[p]
          /\ pre[1].status[g] = "active"
          /\ user_goals[g].metric \in SupportedMetricKeys
          /\ DataMeetsTarget(caller[p], user_goals[g].metric, user_goals[g].target))
         => user_goals[g].status = "completed"

\* ------------------------------------------------ claims: failures
\* C20 (as claimed): a log write whose streak update failed is not reported
\* to the client as a success; the failed query reaches the caller as an
\* error.
C20_FailureReachesClient ==
  \A p \in Procs :
    (lg[p].pc = "responded" /\ lg[p].status = 201) => lg[p].streakResult.success

\* ------------------------------------------------------- claims: router
\* C21 (as claimed): POST /analytics/goals/check-achievements reaches the
\* goal-achievement check and answers 200 with achievedGoals, notifications
\* and count = number of achieved goals, or 500 with the error when the
\* service fails.
C21_PostCheckAchievements ==
  (rt.pc \in {"responded", "taken"} /\ rt.method = "POST"
     /\ rt.path = <<"goals", "check-achievements">>)
    => /\ rt.handler = "checkGoalAchievements"
       /\ rt.pc = "responded"
       /\ IF rt.service.rejects
          THEN /\ rt.status = 500
               /\ rt.body[1].error = "Failed to check goal achievements"
          ELSE /\ rt.status = 200
               /\ rt.body[1].achievedGoals = rt.service.achievedGoals
               /\ rt.body[1].count = Len(rt.service.achievedGoals)
               /\ Len(rt.body[1].notifications) >= Len(rt.service.achievedGoals)

\* ------------------------------------------ claims: study consistency
\* the maximal runs of consecutive dates of a set of dates, as (first, last)
RunsOf(S) ==
  {r \in S \X S : /\ r[1] <= r[2]
                  /\ \A d \in r[1]..r[2] : d \in S
                  /\ (r[1] - 1) \notin S
                  /\ (r[2] + 1) \notin S}
LongestRun(S) ==
  IF S = {} THEN 0
  ELSE CHOOSE n \in 1..Cardinality(S) :
         /\ \E r \in RunsOf(S) : r[2] - r[1] + 1 = n
         /\ \A r \in RunsOf(S) : r[2] - r[1] + 1 <= n

\* C22 (as claimed): over distinct ascending dates longestStreak is the
\* length of the longest maximal run of consecutive dates and
\* patterns.totalStreaks is the number of maximal runs; days 1,2,3,5,6 give
\* longestStreak 3, averageGapBetweenSessions 1 and totalStreaks 2.
C22_RunsCounted ==
  cp.pc = "done" =>
    /\ cp.result[1].longestStreak = LongestRun(cp.dates)
    /\ cp.result[1].patterns # <<>>
    /\ cp.result[1].patterns[1].totalStreaks = Cardinality(RunsOf(cp.dates))
    /\ cp.dates = {1, 2, 3, 5, 6} =>
         /\ cp.result[1].longestStreak = 3
         /\ cp.result[1].averageGapBetweenSessions = 1
         /\ cp.result[1].patterns[1].totalStreaks = 2

LastDate(S) == CHOOSE d \in S : \A e \in S : e <= d
TrailingRunOf(S) ==
  LET r == CHOOSE x \in RunsOf(S) : x[2] = LastDate(S) IN r[2] - r[1] + 1
\* the calendar day the clock is in
Today(nowQuarters) == nowQuarters \div 4

\* C23 (as claimed): currentStreak is the length of the trailing run of
\* consecutive dates when the most recent study date is at most one day
\* before the current day, and 0 otherwise; always
\* currentStreak <= longestStreak <= studyDays.
C23_CurrentStreak ==
  cp.pc = "done" =>
    /\ cp.result[1].currentStreak =
         IF cp.dates # {} /\ Today(cp.now) - LastDate(cp.dates) <= 1
         THEN TrailingRunOf(cp.dates) ELSE 0
    /\ cp.result[1].currentStreak <= cp.result[1].longestStreak
    /\ cp.result[1].longestStreak <= cp.result[1].studyDays

\* the gaps of a set of dates: for every maximal run but the first, the
\* number of days missing between the previous run and it
GapBefore(S, r) ==
  r[1] - (CHOOSE e \in S : e < r[1] /\ \A f \in S : f < r[1] => f <= e) - 1
LaterRuns(S) == {r \in RunsOf(S) : \E e \in S : e < r[1]}
GapSum(S) ==
  SumOver([r \in LaterRuns(S) |-> GapBefore(S, r)], LaterRuns(S))

\* C24 (as claimed): averageGapBetweenSessions is the mean of the gap values
\* (days missing between one streak and the next), 0 without a gap; gaps of
\* 1 and 2 days give 1.5.
C24_MeanGap ==
  cp.pc = "done" =>
    cp.result[1].averageGapBetweenSessions * Cardinality(LaterRuns(cp.dates))
      = GapSum(cp.dates)

\* C24 (amended): averageGapBetweenSessions is the mean of the gap values
\* rounded to the nearest integer, halves up (gaps of 1 and 2 days give 2),
\* and 0 without a gap.
C24_RoundedMeanGap ==
  cp.pc = "done" =>
    cp.result[1].averageGapBetweenSessions =
      IF LaterRuns(cp.dates) = {} THEN 0
      ELSE RoundDiv(GapSum(cp.dates), Cardinality(LaterRuns(cp.dates)))

C24_Witness ==
  /\ cp.pc = "done"
  /\ cp.dates = {1, 3, 6}
  /\ cp.result[1].patterns[1].totalGaps = 2
  /\ cp.result[1].averageGapBetweenSessions = 2

\* ------------------------------------------ claims: previous period
\* the dates of the current window: the current start date through today
CurrentWindow == DateOf(pp.currentStartDate)..DateOf(pp.now)

\* C25 (as claimed): the previous window ends the day before the current
\* start date, has as many calendar days as the current window (current
\* start date through today) and shares no date with it.
C25_PreviousWindow ==
  pp.pc = "done" =>
    /\ pp.result[1].periodEnd = DateOf(pp.currentStartDate) - 1
    /\ Cardinality(pp.result[1].queried) = Cardinality(CurrentWindow)
    /\ pp.result[1].queried \cap CurrentWindow = {}

\* ------------------------------------------ claims: atomic completion
\* C26 (as claimed): whenever no call is in progress, also after a call that
\* failed on a query between its two writes, every goal that
\* checkGoalAchievements completed has a goal_achievements row; a goal
\* without a row is still active.
C26_CompletionAtomic ==
  AllIdle =>
    \A g \in Goals :
      user_goals[g].status = "completed"
        => \E i \in DOMAIN goal_achievements : goal_achievements[i].goal_id = g

\* ------------------------------------------ claims: streak and written days
\* the number of consecutive days ending at `last` that are all in S
RECURSIVE RunEndingAt(_, _)
RunEndingAt(S, last) ==
  IF last \in S THEN 1 + RunEndingAt(S, last - 1) ELSE 0

\* C27 (as claimed): after any sequence of completed writes, in any date
\* order, the stored current_streak is the number of consecutive days ending
\* at the stored last_activity_date on which a completed activity was
\* written.
C27_StreakCountsWrittenDays ==
  (AllStreakIdle /\ user_streaks # <<>>) =>
    user_streaks[1].current_streak
      = RunEndingAt(written, user_streaks[1].last_activity_date)

\* ------------------------------------------ claims: streak row bounds
\* C28: in every reachable state of the streak row,
\* 0 <= current_streak <= longest_streak, over any interleaving of
\* updateUserStreak (completed or not), resetUserStreak and updateStreak.
C28_CurrentWithinLongest ==
  user_streaks # <<>> =>
    /\ 0 <= user_streaks[1].current_streak
    /\ user_streaks[1].current_streak <= user_streaks[1].longest_streak

\* a reset has cut a streak of two while a completed call that read the row
\* before the reset is still to write
C28_Witness ==
  /\ user_streaks # <<>>
  /\ user_streaks[1].current_streak = 0
  /\ user_streaks[1].longest_streak >= 2
  /\ \E p \in Procs :
       /\ spc[p] = "write"
       /\ sreq[p].completed
       /\ streakResult[p] # <<>>
       /\ streakResult[p][1].current_streak >= 2

\* ------------------------------------------ claims: progress and completion
\* C29 (as claimed): for the same metric value, processGoalProgress reports
\* progressStatus 'achieved' exactly when checkGoalAchievements would
\* complete the goal (currentValue >= target), also for a target of 0 and
\* for values just below the target.
C29_AchievedIffCompleted ==
  (pg.pc = "ready" /\ pg.detailed # <<>> /\ pg.currentValue % 100 = 0) =>
    (pg.detailed[1].status = "achieved"
       <=> MeetsTarget(pg.currentValue \div 100, pg.target))

\* ------------------------------------------ claims: completed activity
\* C30 (as claimed): when an updateUserStreak call with completed = true
\* returns success, whatever calls came before it, the stored current_streak
\* is at least 1 and the stored last_activity_date is the date of the call.
C30_CompletedLeavesStreak ==
  \A p \in Procs :
    (spc[p] = "ok" /\ sreq[p].op = "updateUserStreak" /\ sreq[p].completed)
      => /\ user_streaks # <<>>
         /\ user_streaks[1].current_streak >= 1
         /\ user_streaks[1].last_activity_date = sreq[p].date

====
